---- MODULE Spec2Model ----
(***************************************************************************)
(* The staged content pipeline of the Oxford debate agent:                 *)
(*   src/src/debate_orchestrator.py  DebateOrchestrator                     *)
(*   src/src/audio_generator.py      AudioGenerator                         *)
(*   src/src/main.py                 the `generate` command                 *)
(*                                                                         *)
(* Spec    : one run of the `generate` command (main.py drives the         *)
(*           orchestrator).                                                *)
(* SpecApi : a client that drives one DebateOrchestrator object directly   *)
(*           (generate_debate, repeatedly, then generate_audio on the      *)
(*           object's debate_content).                                     *)
(***************************************************************************)
EXTENDS Integers, Sequences, FiniteSets, TLC

VARIABLES
    motion,          \* self.motion
    prompts,         \* self.prompts['system_prompts']: stage -> template
    config,          \* self.config: voices, filename_pattern, include_transcript
    debate_content,  \* self.debate_content: stage -> text
    pc,              \* position of the control flow
    gd_step,         \* index of the next _generate_speech call of generate_debate
    llm_calls,       \* history: the calls self.llm.invoke(prompt) of the current
                     \* (or last) generate_debate, in order
    content_bound,   \* the caller holds the mapping generate_debate returned
    tts_provider,    \* AudioGenerator.tts_provider ("none" before construction)
    ga_idx,          \* index into speech_order of the current loop iteration
    audio_files,     \* the local list audio_files of generate_audio
    synth_calls,     \* history: the upstream speech-synthesis requests, in order
    writes,          \* history: the files written, in order
    disk,            \* the files under output_dir: path -> content
    exc,             \* the exception that is propagating or was caught
    exit_code,       \* exit status of the command (-1 while running)
    printed,         \* the artifact list the command printed as its result
    gd_calls,        \* number of generate_debate calls made by the client
    ga_calls,        \* number of generate_audio calls made by the client
    pydub_installed, \* the import of pydub in normalize_audio succeeds
    export_outcome,  \* what the mp3 export of pydub does in this environment
    audio_at_path,   \* the file at the audio_path given to normalize_audio
    normalize_log    \* history: the normalize_audio calls and their outcomes

vars == <<motion, prompts, config, debate_content, pc, gd_step, llm_calls,
          content_bound, tts_provider, ga_idx, audio_files, synth_calls,
          writes, disk, exc, exit_code, printed, gd_calls, ga_calls,
          pydub_installed, export_outcome, audio_at_path, normalize_log>>

\* The state normalize_audio reads and writes.
norm_vars == <<pydub_installed, export_outcome, audio_at_path, normalize_log>>

(***************************************************************************)
(* Bounds of the model.                                                    *)
(***************************************************************************)
\* Texts the text provider can return are numbered 0..MaxText; 0 is the
\* empty string.
MaxText == 1
\* A client calls generate_debate at most MaxDebateCalls times.
MaxDebateCalls == 2
\* Peak levels of an audio file are 0..MaxPeak; 0 is silence, MaxPeak the
\* level normalization brings the peak to.
MaxPeak == 3
\* A client calls normalize_audio on the file at most MaxNormalizeCalls times.
MaxNormalizeCalls == 2

EmptyText == 0
Texts == 0..MaxText

Sides == {"proposition", "opposition"}
Stages == {"proposition_opening", "opposition_opening",
           "proposition_rebuttal", "opposition_rebuttal",
           "proposition_closing", "opposition_closing"}

Motions == {"AI will do more good than harm"}

NoExc == [type |-> "none", site |-> "none", stage |-> "none"]
Exc(type, site, stage) == [type |-> type, site |-> site, stage |-> stage]

EmptyMap == [s \in {} |-> EmptyText]

(***************************************************************************)
(* Text phase.                                                             *)
(***************************************************************************)
\* Mutant: the opposition's rebuttal is generated before the proposition's.
GenerateDebateCallsSwapped ==
    << [stage |-> "proposition_opening", context |-> {}],
       [stage |-> "opposition_opening", context |-> {}],
       [stage |-> "opposition_rebuttal", context |-> {"proposition_opening"}],
       [stage |-> "proposition_rebuttal", context |-> {"opposition_opening"}],
       [stage |-> "proposition_closing",
        context |-> {"proposition_opening", "opposition_opening",
                     "proposition_rebuttal", "opposition_rebuttal"}],
       [stage |-> "opposition_closing",
        context |-> {"proposition_opening", "opposition_opening",
                     "proposition_rebuttal", "opposition_rebuttal"}] >>

\* Mutant: the proposition's rebuttal is generated before the opposition's
\* opening.
GenerateDebateCallsEarlyRebuttal ==
    << [stage |-> "proposition_opening", context |-> {}],
       [stage |-> "proposition_rebuttal", context |-> {"opposition_opening"}],
       [stage |-> "opposition_opening", context |-> {}],
       [stage |-> "opposition_rebuttal", context |-> {"proposition_opening"}],
       [stage |-> "proposition_closing",
        context |-> {"proposition_opening", "opposition_opening",
                     "proposition_rebuttal", "opposition_rebuttal"}],
       [stage |-> "opposition_closing",
        context |-> {"proposition_opening", "opposition_opening",
                     "proposition_rebuttal", "opposition_rebuttal"}] >>

\* The six _generate_speech calls of generate_debate, in program order:
\* the stage generated and the keys of the context dictionary passed.
GenerateDebateCalls ==
    << [stage |-> "proposition_opening", context |-> {}],
       [stage |-> "opposition_opening", context |-> {}],
       [stage |-> "proposition_rebuttal", context |-> {"opposition_opening"}],
       [stage |-> "opposition_rebuttal", context |-> {"proposition_opening"}],
       [stage |-> "proposition_closing",
        context |-> {"proposition_opening", "opposition_opening",
                     "proposition_rebuttal", "opposition_rebuttal"}],
       [stage |-> "opposition_closing",
        context |-> {"proposition_opening", "opposition_opening",
                     "proposition_rebuttal", "opposition_rebuttal"}] >>

NumStages == Len(GenerateDebateCalls)

\* Mutant: every context key is bound to the first speech.
ContextOfFirstSpeech(call, dc) == [k \in call.context |-> dc["proposition_opening"]]

\* The context dictionary of a call: each key bound to self.debate_content[key]
\* as it is when the call is made.
ContextOf(call, dc) == [k \in call.context |-> dc[k]]

\* A template is modelled by the set of replacement fields it references
\* besides {motion}.
AllPrior == {"proposition_opening", "opposition_opening",
             "proposition_rebuttal", "opposition_rebuttal"}

StdTemplate(stage) ==
    CASE stage = "proposition_opening" -> {}
      [] stage = "opposition_opening" -> {}
      [] stage = "proposition_rebuttal" -> {"opposition_opening"}
      [] stage = "opposition_rebuttal" -> {"proposition_opening"}
      [] OTHER -> AllPrior

StdPrompts == [s \in Stages |-> StdTemplate(s)]

\* Prompt-template mappings the run can be given: the standard one, one that
\* lacks the key of a stage, one whose template for a stage references all
\* four earlier speeches.
PromptConfigs ==
    {StdPrompts}
    \cup {[s \in Stages \ {m} |-> StdTemplate(s)] : m \in Stages}
    \cup {[StdPrompts EXCEPT ![m] = AllPrior] : m \in Stages}

\* Mutant: a missing template is replaced by an empty one (dict.get).
HasTemplateDefaulted(p, stage) == TRUE

\* self.prompts['system_prompts'][stage] finds the key.
HasTemplate(p, stage) == stage \in DOMAIN p

TemplateOf(p, stage) == IF stage \in DOMAIN p THEN p[stage] ELSE {}

\* str.format(motion=..., **context) raises KeyError for a referenced field
\* that is not among the keyword arguments; unused arguments are ignored.
CanFormat(template, context) == template \subseteq DOMAIN context

Format(template, m, context) ==
    [motion |-> m, fields |-> [k \in template |-> context[k]]]

\* Outcomes of self.llm.invoke(prompt): the upstream call raises, or it
\* returns a response whose content is one of the texts (the empty one included).
LlmOutcomes ==
    {[raised |-> TRUE, content |-> EmptyText]}
    \cup {[raised |-> FALSE, content |-> t] : t \in Texts}

\* Mutant: generate_debate catches the failure of a stage and goes on with
\* the next one.
SwallowInDebate(e) ==
    /\ pc' = pc
    /\ exc' = e
    /\ gd_step' = gd_step + 1

\* generate_debate has no handler: an exception raised by a stage leaves it
\* at once and propagates to the caller.
PropagateFromDebate(e) ==
    /\ pc' = "raised"
    /\ exc' = e
    /\ gd_step' = gd_step

\* One statement self.debate_content[stage] = self._generate_speech(stage, ctx)
\* of generate_debate.
GenerateSpeech ==
    /\ pc = "generate_debate"
    /\ gd_step <= NumStages
    /\ LET call == GenerateDebateCalls[gd_step]
           stage == call.stage
           context == ContextOf(call, debate_content)
           template == TemplateOf(prompts, stage)
       IN  IF ~HasTemplate(prompts, stage)
           THEN /\ PropagateFromDebate(Exc("KeyError", "prompts[stage]", stage))
                /\ UNCHANGED <<debate_content, llm_calls>>
           ELSE IF ~CanFormat(template, context)
           THEN /\ PropagateFromDebate(Exc("KeyError", "prompt_template.format", stage))
                /\ UNCHANGED <<debate_content, llm_calls>>
           ELSE \E r \in LlmOutcomes :
                /\ llm_calls' = Append(llm_calls,
                                  [stage |-> stage,
                                   context |-> context,
                                   prompt |-> Format(template, motion, context)])
                /\ IF r.raised
                   THEN /\ PropagateFromDebate(Exc("ProviderError", "llm.invoke", stage))
                        /\ UNCHANGED debate_content
                   ELSE /\ debate_content' =
                              [s \in DOMAIN debate_content \cup {stage} |->
                                  IF s = stage THEN r.content ELSE debate_content[s]]
                        /\ gd_step' = gd_step + 1
                        /\ UNCHANGED <<pc, exc>>
    /\ UNCHANGED norm_vars
    /\ UNCHANGED <<motion, prompts, config, content_bound, tts_provider, ga_idx,
                   audio_files, synth_calls, writes, disk, exit_code, printed,
                   gd_calls, ga_calls>>

\* return self.debate_content
GenerateDebateReturn ==
    /\ pc = "generate_debate"
    /\ gd_step > NumStages
    /\ pc' = "gd_returned"
    /\ UNCHANGED norm_vars
    /\ UNCHANGED <<motion, prompts, config, debate_content, gd_step, llm_calls,
                   content_bound, tts_provider, ga_idx, audio_files, synth_calls,
                   writes, disk, exc, exit_code, printed, gd_calls, ga_calls>>

(***************************************************************************)
(* Audio phase.                                                            *)
(***************************************************************************)
\* Mutant: the two rebuttal entries are exchanged.
speech_order_swapped ==
    << [stage |-> "proposition_opening", side |-> "proposition", stage_name |-> "opening", order |-> 1],
       [stage |-> "opposition_opening", side |-> "opposition", stage_name |-> "opening", order |-> 2],
       [stage |-> "opposition_rebuttal", side |-> "opposition", stage_name |-> "rebuttal", order |-> 3],
       [stage |-> "proposition_rebuttal", side |-> "proposition", stage_name |-> "rebuttal", order |-> 4],
       [stage |-> "proposition_closing", side |-> "proposition", stage_name |-> "closing", order |-> 5],
       [stage |-> "opposition_closing", side |-> "opposition", stage_name |-> "closing", order |-> 6] >>

\* The list speech_order of generate_audio.
speech_order ==
    << [stage |-> "proposition_opening", side |-> "proposition", stage_name |-> "opening", order |-> 1],
       [stage |-> "opposition_opening", side |-> "opposition", stage_name |-> "opening", order |-> 2],
       [stage |-> "proposition_rebuttal", side |-> "proposition", stage_name |-> "rebuttal", order |-> 3],
       [stage |-> "opposition_rebuttal", side |-> "opposition", stage_name |-> "rebuttal", order |-> 4],
       [stage |-> "proposition_closing", side |-> "proposition", stage_name |-> "closing", order |-> 5],
       [stage |-> "opposition_closing", side |-> "opposition", stage_name |-> "closing", order |-> 6] >>

NumEntries == Len(speech_order)

\* A filename pattern is a sequence of literal pieces and replacement fields
\* (its stem) and a suffix.
FieldOrder == "{order:02d}"
FieldSide == "{side}"
FieldStage == "{stage}"

StdPattern == [stem |-> <<FieldOrder, "_", FieldSide, "_", FieldStage>>, ext |-> ".mp3"]

Patterns ==
    { [stem |-> <<FieldOrder, "_", FieldSide, "_", FieldStage>>, ext |-> ".mp3"],
      [stem |-> <<FieldSide, "_", FieldStage>>, ext |-> ".mp3"],
      [stem |-> <<"debate_", FieldSide>>, ext |-> ".mp3"],
      [stem |-> <<FieldOrder, "_", FieldSide, "_", FieldStage>>, ext |-> ".txt"] }

Digit == <<"0", "1", "2", "3", "4", "5", "6", "7", "8", "9">>

\* The format specification 02d: decimal, zero-padded to two digits.
Pad2(n) ==
    IF n < 10 THEN "0" \o Digit[n + 1]
    ELSE Digit[(n \div 10) + 1] \o Digit[(n % 10) + 1]

Substitute(token, order, side, stage_name) ==
    CASE token = FieldOrder -> Pad2(order)
      [] token = FieldSide -> side
      [] token = FieldStage -> stage_name
      [] OTHER -> token

RECURSIVE Concat(_)
Concat(pieces) ==
    IF pieces = <<>> THEN "" ELSE Head(pieces) \o Concat(Tail(pieces))

\* Mutant: the sequence number is left out of the file name.
FormatFilenameNoOrder(pattern, order, side, stage_name) ==
    [stem |-> Concat([i \in 1..Len(pattern.stem) |->
                        Substitute(pattern.stem[i], 0, side, stage_name)]),
     ext |-> pattern.ext]

\* self.output_dir / filename_pattern.format(order=, side=, stage=)
FormatFilename(pattern, order, side, stage_name) ==
    [stem |-> Concat([i \in 1..Len(pattern.stem) |->
                        Substitute(pattern.stem[i], order, side, stage_name)]),
     ext |-> pattern.ext]

\* output_path.with_suffix('.txt')
TranscriptPath(path) == [stem |-> path.stem, ext |-> ".txt"]

\* str.upper() on the sides and phase labels.
Upper(w) ==
    CASE w = "proposition" -> "PROPOSITION"
      [] w = "opposition" -> "OPPOSITION"
      [] w = "opening" -> "OPENING"
      [] w = "rebuttal" -> "REBUTTAL"
      [] w = "closing" -> "CLOSING"

\* Mutant: the header is written as the entry gives it, not upper-cased.
TranscriptContentPlain(side, stage_name, m, text) ==
    [kind |-> "transcript",
     header |-> "# " \o side \o " - " \o stage_name \o "\\n\\n",
     motion_line |-> "Motion: " \o m \o "\\n\\n",
     text |-> text]

\* The three f.write calls of the transcript block. The escapes are written
\* \\n in the source, so the file holds a backslash and an n, not a newline.
TranscriptContent(side, stage_name, m, text) ==
    [kind |-> "transcript",
     header |-> "# " \o Upper(side) \o " - " \o Upper(stage_name) \o "\\n\\n",
     motion_line |-> "Motion: " \o m \o "\\n\\n",
     text |-> text]

\* Voice configurations config['audio']['voices']: side -> voice_id.
StdVoices == [s \in Sides |-> IF s = "proposition" THEN "alloy" ELSE "onyx"]
VoiceConfigs ==
    {StdVoices} \cup {[s \in Sides \ {m} |-> StdVoices[s]] : m \in Sides}

\* Mutant: an unknown voice falls back to a default voice.
HasVoiceDefaulted(voices, voice) == TRUE

\* self.config['audio']['voices'][voice] finds the key.
HasVoice(voices, voice) == voice \in DOMAIN voices

VoiceIdOf(voices, voice) == IF voice \in DOMAIN voices THEN voices[voice] ELSE "alloy"

\* Mutant: a missing text is replaced by an empty one (dict.get).
HasContentDefaulted(content, stage) == TRUE

\* debate_content[stage] finds the key.
HasContent(content, stage) == stage \in DOMAIN content

TextOf(content, stage) == IF stage \in DOMAIN content THEN content[stage] ELSE EmptyText

Configs ==
    [voices : VoiceConfigs, filename_pattern : Patterns, include_transcript : BOOLEAN]

\* Values of the environment variable TTS_PROVIDER.
Providers == {"openai", "elevenlabs", "azure"}

\* Mutant: generate_audio catches the failure of an entry and goes on with
\* the next one.
SwallowInAudio(e) ==
    /\ pc' = "generate_audio"
    /\ exc' = e
    /\ ga_idx' = ga_idx + 1

\* generate_audio has no handler: an exception raised for an entry leaves it
\* at once and propagates to the caller.
PropagateFromAudio(e) ==
    /\ pc' = "raised"
    /\ exc' = e
    /\ ga_idx' = ga_idx

\* audio_gen = AudioGenerator(self.config); audio_files = []
\* The provider name is read from the environment. OpenAI() finds the key that
\* _load_api_key put into the environment; the elevenlabs import fails when
\* the SDK is not installed; any other name constructs without a client.
AudioGeneratorInit ==
    /\ pc = "generate_audio_init"
    /\ \E p \in Providers, sdk_installed \in BOOLEAN :
          IF p = "elevenlabs" /\ ~sdk_installed
          THEN /\ PropagateFromAudio(Exc("ImportError", "AudioGenerator.__init__", "none"))
               /\ UNCHANGED <<tts_provider, audio_files>>
          ELSE /\ tts_provider' = p
               /\ audio_files' = <<>>
               /\ ga_idx' = 1
               /\ pc' = "generate_audio"
               /\ UNCHANGED exc
    /\ UNCHANGED norm_vars
    /\ UNCHANGED <<motion, prompts, config, debate_content, gd_step, llm_calls,
                   content_bound, synth_calls, writes, disk, exit_code, printed,
                   gd_calls, ga_calls>>

\* What the backend writes to output_path: the speech of the text in the voice.
AudioContent(text, voice_id) == [kind |-> "audio", text |-> text, voice |-> voice_id]

\* Outcomes of the upstream speech request.
SynthOutcomes == {"ok", "error"}

\* Mutant: the path is put at the front of the result list.
AppendArtifactFront(files, path) == <<path>> \o files

\* audio_files.append(output_path)
AppendArtifact(files, path) == Append(files, path)

\* One iteration of the loop of generate_audio up to audio_files.append:
\* the text lookup, the file name, text_to_speech (provider dispatch, voice
\* lookup, upstream request, file write).
AudioEntrySynthesize ==
    /\ pc = "generate_audio"
    /\ ga_idx <= NumEntries
    /\ LET entry == speech_order[ga_idx]
           text == TextOf(debate_content, entry.stage)
           output_path == FormatFilename(config.filename_pattern, entry.order,
                                         entry.side, entry.stage_name)
           voice_id == VoiceIdOf(config.voices, entry.side)
       IN  IF ~HasContent(debate_content, entry.stage)
           THEN /\ PropagateFromAudio(Exc("KeyError", "debate_content[stage]", entry.stage))
                /\ UNCHANGED <<synth_calls, writes, disk, audio_files>>
           ELSE IF tts_provider \notin {"openai", "elevenlabs"}
           THEN /\ PropagateFromAudio(Exc("ValueError", "text_to_speech", entry.stage))
                /\ UNCHANGED <<synth_calls, writes, disk, audio_files>>
           ELSE IF ~HasVoice(config.voices, entry.side)
           THEN /\ PropagateFromAudio(Exc("KeyError", "voices[voice]", entry.stage))
                /\ UNCHANGED <<synth_calls, writes, disk, audio_files>>
           ELSE \E r \in SynthOutcomes :
                /\ synth_calls' = Append(synth_calls,
                                    [stage |-> entry.stage, order |-> entry.order,
                                     text |-> text, voice |-> voice_id,
                                     backend |-> tts_provider])
                /\ IF r = "error"
                   THEN /\ PropagateFromAudio(Exc("ProviderError", "tts_request", entry.stage))
                        /\ UNCHANGED <<writes, disk, audio_files>>
                   ELSE /\ writes' = Append(writes,
                                       [kind |-> "audio", order |-> entry.order,
                                        path |-> output_path,
                                        content |-> AudioContent(text, voice_id)])
                        /\ disk' = [q \in DOMAIN disk \cup {output_path} |->
                                      IF q = output_path
                                      THEN AudioContent(text, voice_id)
                                      ELSE disk[q]]
                        /\ audio_files' = AppendArtifact(audio_files, output_path)
                        /\ pc' = "generate_audio_transcript"
                        /\ UNCHANGED <<ga_idx, exc>>
    /\ UNCHANGED norm_vars
    /\ UNCHANGED <<motion, prompts, config, debate_content, gd_step, llm_calls,
                   content_bound, tts_provider, exit_code, printed, gd_calls, ga_calls>>

\* Outcomes of opening and writing the transcript file.
FileOutcomes == {"ok", "error"}

\* Mutant: the transcript is written whatever the configuration says.
WantsTranscriptAlways(c) == TRUE

\* self.config['output']['metadata']['include_transcript']
WantsTranscript(c) == c.include_transcript

\* The rest of the iteration: the optional transcript.
AudioEntryTranscript ==
    /\ pc = "generate_audio_transcript"
    /\ LET entry == speech_order[ga_idx]
           text == TextOf(debate_content, entry.stage)
           output_path == FormatFilename(config.filename_pattern, entry.order,
                                         entry.side, entry.stage_name)
           transcript_path == TranscriptPath(output_path)
           body == TranscriptContent(entry.side, entry.stage_name, motion, text)
       IN  IF ~WantsTranscript(config)
           THEN /\ ga_idx' = ga_idx + 1
                /\ pc' = "generate_audio"
                /\ UNCHANGED <<writes, disk, exc>>
           ELSE \E r \in FileOutcomes :
                IF r = "error"
                THEN /\ PropagateFromAudio(Exc("OSError", "open(transcript_path)", entry.stage))
                     /\ UNCHANGED <<writes, disk>>
                ELSE /\ writes' = Append(writes,
                                    [kind |-> "transcript", order |-> entry.order,
                                     path |-> transcript_path, content |-> body])
                     /\ disk' = [q \in DOMAIN disk \cup {transcript_path} |->
                                   IF q = transcript_path THEN body ELSE disk[q]]
                     /\ ga_idx' = ga_idx + 1
                     /\ pc' = "generate_audio"
                     /\ UNCHANGED exc
    /\ UNCHANGED norm_vars
    /\ UNCHANGED <<motion, prompts, config, debate_content, gd_step, llm_calls,
                   content_bound, tts_provider, audio_files, synth_calls,
                   exit_code, printed, gd_calls, ga_calls>>

\* return audio_files
GenerateAudioReturn ==
    /\ pc = "generate_audio"
    /\ ga_idx > NumEntries
    /\ pc' = "ga_returned"
    /\ UNCHANGED norm_vars
    /\ UNCHANGED <<motion, prompts, config, debate_content, gd_step, llm_calls,
                   content_bound, tts_provider, ga_idx, audio_files, synth_calls,
                   writes, disk, exc, exit_code, printed, gd_calls, ga_calls>>

(***************************************************************************)
(* Normalization (AudioGenerator.normalize_audio).                         *)
(***************************************************************************)
\* An audio file: its peak level, its encoding, whether it can be decoded.
AudioFiles == [peak : 0..MaxPeak, format : {"mp3", "wav"}, decodable : BOOLEAN]

\* The export writes the file, or it raises: before it has opened the file
\* for writing, or after.
ExportOutcomes == {"written", "raises, file untouched", "raises, file truncated"}

\* What a failed export can leave at the path: an empty, undecodable file.
TruncatedFile == [peak |-> 0, format |-> "mp3", decodable |-> FALSE]

\* Mutant: a fixed gain is applied whatever the peak is.
NormalizedPeakFixedGain(peak) == IF peak < MaxPeak THEN peak + 1 ELSE peak

\* normalize(audio): the gain that brings the peak to the target level is
\* applied; silence stays silence.
NormalizedPeak(peak) == IF peak = 0 THEN 0 ELSE MaxPeak

\* normalized_audio.export(audio_path, format='mp3')
Exported(peak) == [peak |-> peak, format |-> "mp3", decodable |-> TRUE]

\* Mutant: every exception is caught and the path returned.
NormalizeRaisesNever(site) == "returned"

\* try ... except ImportError: only the failed import is caught; what
\* from_file, normalize and export raise leaves normalize_audio.
NormalizeRaises(site) == IF site = "import pydub" THEN "returned" ELSE "raised"

NormalizeEntry(result, site, before, after) ==
    [result |-> result, site |-> site, path |-> "audio_path",
     before |-> before, after |-> after]

\* One call normalize_audio(audio_path).
NormalizeAudio ==
    /\ pc = "normalize"
    /\ Len(normalize_log) < MaxNormalizeCalls
    /\ IF ~pydub_installed
       THEN /\ audio_at_path' = audio_at_path
            /\ normalize_log' = Append(normalize_log,
                    NormalizeEntry(NormalizeRaises("import pydub"), "import pydub",
                                   audio_at_path, audio_at_path))
       ELSE IF ~audio_at_path.decodable
       THEN /\ audio_at_path' = audio_at_path
            /\ normalize_log' = Append(normalize_log,
                    NormalizeEntry(NormalizeRaises("AudioSegment.from_file"),
                                   "AudioSegment.from_file",
                                   audio_at_path, audio_at_path))
       ELSE IF export_outcome # "written"
       THEN LET left == IF export_outcome = "raises, file truncated"
                        THEN TruncatedFile ELSE audio_at_path
            IN  /\ audio_at_path' = left
                /\ normalize_log' = Append(normalize_log,
                        NormalizeEntry(NormalizeRaises("export"), "export",
                                       audio_at_path, left))
       ELSE /\ audio_at_path' = Exported(NormalizedPeak(audio_at_path.peak))
            /\ normalize_log' = Append(normalize_log,
                    NormalizeEntry("returned", "return audio_path", audio_at_path,
                                   Exported(NormalizedPeak(audio_at_path.peak))))
    /\ UNCHANGED <<pydub_installed, export_outcome>>
    /\ UNCHANGED <<motion, prompts, config, debate_content, pc, gd_step, llm_calls,
                   content_bound, tts_provider, ga_idx, audio_files, synth_calls,
                   writes, disk, exc, exit_code, printed, gd_calls, ga_calls>>

(***************************************************************************)
(* The generate command (main.py).                                         *)
(***************************************************************************)
\* try: debate_content = orchestrator.generate_debate()   (the call)
MainCallGenerateDebate ==
    /\ pc = "main_try"
    /\ pc' = "generate_debate"
    /\ gd_step' = 1
    /\ gd_calls' = gd_calls + 1
    /\ UNCHANGED norm_vars
    /\ UNCHANGED <<motion, prompts, config, debate_content, llm_calls,
                   content_bound, tts_provider, ga_idx, audio_files, synth_calls,
                   writes, disk, exc, exit_code, printed, ga_calls>>

\* The returned mapping is bound to debate_content and passed on:
\* audio_files = orchestrator.generate_audio(debate_content)   (the call)
MainCallGenerateAudio ==
    /\ pc = "gd_returned"
    /\ content_bound' = TRUE
    /\ pc' = "generate_audio_init"
    /\ ga_calls' = ga_calls + 1
    /\ UNCHANGED norm_vars
    /\ UNCHANGED <<motion, prompts, config, debate_content, gd_step, llm_calls,
                   tts_provider, ga_idx, audio_files, synth_calls, writes, disk,
                   exc, exit_code, printed, gd_calls>>

\* Mutant: the handler prints the error and goes on to report the files.
MainExceptReportsSuccess ==
    /\ pc = "raised"
    /\ printed' = audio_files
    /\ exit_code' = 0
    /\ pc' = "exit"
    /\ UNCHANGED norm_vars
    /\ UNCHANGED <<motion, prompts, config, debate_content, gd_step, llm_calls,
                   content_bound, tts_provider, ga_idx, audio_files, synth_calls,
                   writes, disk, exc, gd_calls, ga_calls>>

\* except Exception as e: print; raise typer.Exit(1)
MainExcept ==
    /\ pc = "raised"
    /\ exit_code' = 1
    /\ pc' = "exit"
    /\ UNCHANGED norm_vars
    /\ UNCHANGED <<motion, prompts, config, debate_content, gd_step, llm_calls,
                   content_bound, tts_provider, ga_idx, audio_files, synth_calls,
                   writes, disk, exc, printed, gd_calls, ga_calls>>

\* Display results: the generated files are listed and the command ends.
MainDisplay ==
    /\ pc = "ga_returned"
    /\ printed' = audio_files
    /\ exit_code' = 0
    /\ pc' = "exit"
    /\ UNCHANGED norm_vars
    /\ UNCHANGED <<motion, prompts, config, debate_content, gd_step, llm_calls,
                   content_bound, tts_provider, ga_idx, audio_files, synth_calls,
                   writes, disk, exc, gd_calls, ga_calls>>

(***************************************************************************)
(* A client of the class.                                                  *)
(***************************************************************************)
\* orchestrator.generate_debate(), again on the same object if it was called
\* before. The client renders audio last.
ClientCallGenerateDebate ==
    /\ pc = "client"
    /\ gd_calls < MaxDebateCalls
    /\ ga_calls = 0
    /\ pc' = "generate_debate"
    /\ gd_step' = 1
    /\ gd_calls' = gd_calls + 1
    /\ exc' = NoExc
    /\ llm_calls' = <<>>
    /\ UNCHANGED norm_vars
    /\ UNCHANGED <<motion, prompts, config, debate_content,
                   content_bound, tts_provider, ga_idx, audio_files, synth_calls,
                   writes, disk, exit_code, printed, ga_calls>>

\* orchestrator.generate_audio(orchestrator.debate_content)
ClientCallGenerateAudio ==
    /\ pc = "client"
    /\ ga_calls = 0
    /\ pc' = "generate_audio_init"
    /\ ga_calls' = ga_calls + 1
    /\ exc' = NoExc
    /\ UNCHANGED norm_vars
    /\ UNCHANGED <<motion, prompts, config, debate_content, gd_step, llm_calls,
                   content_bound, tts_provider, ga_idx, audio_files, synth_calls,
                   writes, disk, exit_code, printed, gd_calls>>

\* The call returns, or the client catches what it raised.
ClientResume ==
    /\ pc \in {"gd_returned", "ga_returned", "raised"}
    /\ pc' = "client"
    /\ content_bound' = (content_bound \/ pc = "gd_returned")
    /\ UNCHANGED norm_vars
    /\ UNCHANGED <<motion, prompts, config, debate_content, gd_step, llm_calls,
                   tts_provider, ga_idx, audio_files, synth_calls, writes, disk,
                   exc, exit_code, printed, gd_calls, ga_calls>>

(***************************************************************************)
(* Specifications.                                                         *)
(***************************************************************************)
\* The state after DebateOrchestrator.__init__.
Constructed ==
    /\ motion \in Motions
    /\ prompts \in PromptConfigs
    /\ config \in Configs
    /\ debate_content = EmptyMap
    /\ gd_step = 1
    /\ llm_calls = <<>>
    /\ content_bound = FALSE
    /\ tts_provider = "none"
    /\ ga_idx = 1
    /\ audio_files = <<>>
    /\ synth_calls = <<>>
    /\ writes = <<>>
    /\ disk = [q \in {} |-> 0]
    /\ exc = NoExc
    /\ exit_code = -1
    /\ printed = <<>>
    /\ gd_calls = 0
    /\ ga_calls = 0

\* normalize_audio is not called by the pipeline.
NoNormalization ==
    /\ pydub_installed = FALSE
    /\ export_outcome = "written"
    /\ audio_at_path = [peak |-> 0, format |-> "mp3", decodable |-> TRUE]
    /\ normalize_log = <<>>

Init == Constructed /\ NoNormalization /\ pc = "main_try"

\* The client's configuration: the standard voices, file names and templates,
\* transcripts requested.
InitApi ==
    /\ Constructed
    /\ NoNormalization
    /\ config.voices = StdVoices
    /\ config.filename_pattern = StdPattern
    /\ config.include_transcript
    /\ prompts = StdPrompts
    /\ pc = "client"

Next ==
    \/ MainCallGenerateDebate
    \/ GenerateSpeech
    \/ GenerateDebateReturn
    \/ MainCallGenerateAudio
    \/ AudioGeneratorInit
    \/ AudioEntrySynthesize
    \/ AudioEntryTranscript
    \/ GenerateAudioReturn
    \/ MainExcept
    \/ MainDisplay

NextApi ==
    \/ ClientCallGenerateDebate
    \/ ClientCallGenerateAudio
    \/ GenerateSpeech
    \/ GenerateDebateReturn
    \/ AudioGeneratorInit
    \/ AudioEntrySynthesize
    \/ AudioEntryTranscript
    \/ GenerateAudioReturn
    \/ ClientResume

\* An AudioGenerator with a file to normalize, outside the pipeline.
InitNorm ==
    /\ Constructed
    /\ prompts = StdPrompts
    /\ config.voices = StdVoices
    /\ config.filename_pattern = StdPattern
    /\ config.include_transcript
    /\ pydub_installed \in BOOLEAN
    /\ export_outcome \in ExportOutcomes
    /\ audio_at_path \in AudioFiles
    /\ normalize_log = <<>>
    /\ pc = "normalize"

NextNorm == NormalizeAudio

Spec == Init /\ [][Next]_vars

SpecNorm == InitNorm /\ [][NextNorm]_vars

SpecApi == InitApi /\ [][NextApi]_vars

(***************************************************************************)
(* Properties.                                                             *)
(***************************************************************************)
\* The order of the six stages: openings, rebuttals, closings; within a
\* phase the proposition first.
StageOrder ==
    <<"proposition_opening", "opposition_opening", "proposition_rebuttal",
      "opposition_rebuttal", "proposition_closing", "opposition_closing">>

StageIndex(stage) == CHOOSE i \in 1..6 : StageOrder[i] = stage

TextSites == {"prompts[stage]", "prompt_template.format", "llm.invoke"}

\* C1: whenever generate_debate returns, the mapping has exactly the six
\* stage keys and the text of each is not empty.
C1_SixNonEmptyTexts ==
    pc = "gd_returned" =>
        /\ DOMAIN debate_content = Stages
        /\ \A s \in Stages : debate_content[s] # EmptyText

\* C2: the context of proposition_rebuttal is exactly the stored text of
\* opposition_opening, that of opposition_rebuttal exactly the stored text of
\* proposition_opening, that of each closing exactly the four stored texts of
\* the openings and rebuttals; the prompt sent carries these texts verbatim
\* in the fields its template references.
C2_ContextDependency ==
    \A i \in 1..Len(llm_calls) :
        LET c == llm_calls[i]
            deps == CASE c.stage = "proposition_rebuttal" -> {"opposition_opening"}
                      [] c.stage = "opposition_rebuttal" -> {"proposition_opening"}
                      [] c.stage \in {"proposition_closing", "opposition_closing"} ->
                            {"proposition_opening", "opposition_opening",
                             "proposition_rebuttal", "opposition_rebuttal"}
                      [] OTHER -> {}
        IN  /\ DOMAIN c.context = deps
            /\ \A k \in deps : k \in DOMAIN debate_content
                                 /\ c.context[k] = debate_content[k]
            /\ c.prompt.motion = motion
            /\ \A k \in DOMAIN c.prompt.fields :
                   k \in deps /\ c.prompt.fields[k] = debate_content[k]

C2_Witness ==
    /\ Len(llm_calls) = 6
    /\ DOMAIN llm_calls[6].prompt.fields = AllPrior
    /\ debate_content["proposition_opening"] # debate_content["opposition_opening"]
    /\ debate_content["proposition_rebuttal"] # debate_content["opposition_rebuttal"]

\* C3: the text provider is invoked for the stages in the fixed order; the
\* calls made so far are always the first calls of that order.
C3_FixedOrder ==
    /\ Len(llm_calls) <= 6
    /\ \A i \in 1..Len(llm_calls) : llm_calls[i].stage = StageOrder[i]

C3_Witness == Len(llm_calls) = 6 /\ pc = "gd_returned"

\* The (side, phase) pairs in presentation order.
ArtifactOrder ==
    << <<"proposition", "opening">>, <<"opposition", "opening">>,
       <<"proposition", "rebuttal">>, <<"opposition", "rebuttal">>,
       <<"proposition", "closing">>, <<"opposition", "closing">> >>

StdStems ==
    <<"01_proposition_opening", "02_opposition_opening",
      "03_proposition_rebuttal", "04_opposition_rebuttal",
      "05_proposition_closing", "06_opposition_closing">>

\* C4: when generate_audio completes it returns exactly six paths, the i-th
\* being the configured pattern filled with sequence number i and the i-th
\* (side, phase) pair of the fixed order; the synthesis requests were made in
\* that order.
C4_AudioArtifacts ==
    pc = "ga_returned" =>
        /\ Len(audio_files) = 6
        /\ \A i \in 1..6 :
              audio_files[i] = FormatFilename(config.filename_pattern, i,
                                              ArtifactOrder[i][1], ArtifactOrder[i][2])
        /\ config.filename_pattern = StdPattern =>
              \A i \in 1..6 : audio_files[i] = [stem |-> StdStems[i], ext |-> ".mp3"]
        /\ Len(synth_calls) = 6
        /\ \A i \in 1..6 :
              /\ synth_calls[i].order = i
              /\ synth_calls[i].stage = ArtifactOrder[i][1] \o "_" \o ArtifactOrder[i][2]
              /\ synth_calls[i].text = debate_content[synth_calls[i].stage]

C4_Witness ==
    /\ pc = "ga_returned"
    /\ config.filename_pattern = StdPattern
    /\ Len(audio_files) = 6

C6_MissingTemplate ==
    \A s \in Stages \ DOMAIN prompts :
        /\ gd_step <= StageIndex(s)
        /\ \A i \in 1..Len(llm_calls) : llm_calls[i].stage # s
        /\ (gd_step = StageIndex(s) /\ pc \notin {"main_try", "generate_debate"}) =>
              /\ exc = Exc("KeyError", "prompts[stage]", s)
              /\ pc \in {"raised", "exit"}
        /\ tts_provider = "none"
        /\ synth_calls = <<>>
        /\ writes = <<>>
        /\ DOMAIN disk = {}
        /\ pc = "exit" => exit_code = 1

C6_Witness ==
    /\ exc = Exc("KeyError", "prompts[stage]", "opposition_closing")
    /\ Len(llm_calls) = 5
    /\ pc = "exit"

SideOf(order) == ArtifactOrder[order][1]

AudioWrites == {i \in 1..Len(writes) : writes[i].kind = "audio"}
TranscriptWrites == {i \in 1..Len(writes) : writes[i].kind = "transcript"}

\* C7: a synthesis request for a voice that the voice configuration lacks
\* fails with the KeyError of the voice lookup, with either backend: no
\* upstream request is made for it, no file is written at its output path,
\* and the loop does not get past it.
C7_MissingVoice ==
    /\ \A i \in 1..Len(synth_calls) : SideOf(synth_calls[i].order) \in DOMAIN config.voices
    /\ \A i \in AudioWrites : SideOf(writes[i].order) \in DOMAIN config.voices
    /\ (tts_provider # "none" /\ ga_idx <= 6 /\ SideOf(ga_idx) \notin DOMAIN config.voices) =>
          /\ pc # "generate_audio_transcript"
          /\ FormatFilename(config.filename_pattern, ga_idx, SideOf(ga_idx),
                            ArtifactOrder[ga_idx][2]) \notin DOMAIN disk
          /\ (pc \in {"raised", "exit"} /\ tts_provider \in {"openai", "elevenlabs"}) =>
                exc = Exc("KeyError", "voices[voice]", StageOrder[ga_idx])
    /\ tts_provider # "none" =>
          \A k \in 1..(ga_idx - 1) : SideOf(k) \in DOMAIN config.voices

C7_Witness ==
    /\ exc = Exc("KeyError", "voices[voice]", "opposition_opening")
    /\ tts_provider = "elevenlabs"
    /\ Len(synth_calls) = 1
    /\ pc = "exit"

\* C8: when the content passed to generate_audio lacks the text of a stage,
\* generate_audio fails with the KeyError of the content lookup at the entry
\* of that stage: the entries before it have been synthesized and written,
\* and no request is made and no file written for it or any later entry.
C8_MissingContent ==
    /\ \A i \in 1..Len(synth_calls) : synth_calls[i].stage \in DOMAIN debate_content
    /\ exc.site = "debate_content[stage]" =>
          LET k == StageIndex(exc.stage)
          IN  /\ exc.type = "KeyError"
              /\ exc.stage \notin DOMAIN debate_content
              /\ ga_idx = k
              /\ Len(synth_calls) = k - 1
              /\ \A i \in 1..(k - 1) : synth_calls[i].order = i
              /\ Len(audio_files) = k - 1
              /\ {writes[i].order : i \in AudioWrites} = 1..(k - 1)
              /\ \A i \in 1..Len(writes) : writes[i].order < k
    /\ (tts_provider # "none" /\ ga_idx <= 6 /\ StageOrder[ga_idx] \notin DOMAIN debate_content) =>
          /\ pc # "generate_audio_transcript"
          /\ pc \in {"raised", "client"} => exc.site = "debate_content[stage]"

C8_Witness ==
    /\ exc = Exc("KeyError", "debate_content[stage]", "proposition_rebuttal")
    /\ Len(synth_calls) = 2
    /\ Len(audio_files) = 2
    /\ pc = "client"

\* C9: an unusable speech backend fails when the speech provider is
\* constructed, never at the first synthesis call, and before any call to the
\* text provider.
C9_FailFast ==
    /\ exc.site # "text_to_speech"
    /\ exc.site = "AudioGenerator.__init__" => llm_calls = <<>>

\* C9, first half alone: an unsupported provider name is never reported by
\* text_to_speech.
C9_NotLazy == exc.site # "text_to_speech"

\* C9, second half alone: a failing construction precedes all text generation.
C9_BeforeGeneration == exc.site = "AudioGenerator.__init__" => llm_calls = <<>>

TranscriptHeaders ==
    <<"# PROPOSITION - OPENING\\n\\n", "# OPPOSITION - OPENING\\n\\n",
      "# PROPOSITION - REBUTTAL\\n\\n", "# OPPOSITION - REBUTTAL\\n\\n",
      "# PROPOSITION - CLOSING\\n\\n", "# OPPOSITION - CLOSING\\n\\n">>

\* The iterations of the loop of generate_audio that have run to their end.
EntriesDone == 1..(ga_idx - 1)

\* C10: with transcripts requested, every entry whose audio was written gets
\* a text file written next to its audio file (same stem, suffix .txt) holding
\* the upper-cased header of that entry, the motion and the text of that
\* entry's stage, six of them on a complete run; the only entry with audio
\* and no transcript is the current one, while its transcript step is still
\* to run or after the write itself raised. Every transcript written is such
\* a file; with transcripts not requested no transcript is written.
C10_Transcripts ==
    /\ ~config.include_transcript =>
          /\ TranscriptWrites = {}
          /\ \A q \in DOMAIN disk : disk[q].kind # "transcript"
    /\ config.include_transcript =>
          /\ \A k \in EntriesDone : \E i \in TranscriptWrites : writes[i].order = k
          /\ \A j \in AudioWrites :
                \/ \E i \in TranscriptWrites : writes[i].order = writes[j].order
                \/ /\ ga_idx = writes[j].order
                   /\ \/ pc = "generate_audio_transcript"
                      \/ exc = Exc("OSError", "open(transcript_path)",
                                   StageOrder[ga_idx])
          /\ pc = "ga_returned" => Cardinality(TranscriptWrites) = 6
    /\ \A i \in TranscriptWrites :
          LET w == writes[i]
              k == w.order
          IN  /\ config.include_transcript
              /\ k <= Len(audio_files)
              /\ w.path = [stem |-> audio_files[k].stem, ext |-> ".txt"]
              /\ w.content.header = TranscriptHeaders[k]
              /\ w.content.motion_line = "Motion: " \o motion \o "\\n\\n"
              /\ w.content.text = debate_content[StageOrder[k]]
              /\ i > 1 /\ writes[i - 1].kind = "audio" /\ writes[i - 1].order = k

C10_Witness ==
    /\ pc = "ga_returned"
    /\ config.include_transcript
    /\ Cardinality(TranscriptWrites) = 6
    /\ config.filename_pattern = StdPattern
    /\ [stem |-> "06_opposition_closing", ext |-> ".txt"] \in DOMAIN disk

\* C11: whatever happens in the normalize step, normalize_audio returns a
\* path and raises nothing.
C11_NeverFatal ==
    \A i \in 1..Len(normalize_log) : normalize_log[i].result = "returned"

C13_EmptyContentRejected ==
    /\ \A s \in DOMAIN debate_content : debate_content[s] # EmptyText
    /\ \A i \in 1..Len(llm_calls) :
          \A k \in DOMAIN llm_calls[i].context : llm_calls[i].context[k] # EmptyText

AudioPhasePcs ==
    {"generate_audio_init", "generate_audio", "generate_audio_transcript", "ga_returned"}

\* C14: in a run of the generate command the audio phase (construction of
\* the AudioGenerator, every synthesis request, every file write) starts only
\* after generate_debate has returned the complete six-stage mapping; a
\* failure in either phase reaches the command, which exits with status 1 and
\* prints no artifact list; status 0 is only reached without a failure, with
\* the six artifacts listed.
C14_PhasesAndFailures ==
    /\ (pc \in AudioPhasePcs \/ tts_provider # "none" \/ ga_calls > 0
        \/ synth_calls # <<>> \/ writes # <<>>) =>
          /\ content_bound
          /\ DOMAIN debate_content = Stages
          /\ Len(llm_calls) = 6
          /\ gd_step = 7
    /\ exc # NoExc =>
          /\ pc \in {"raised", "exit"}
          /\ printed = <<>>
          /\ exit_code \in {-1, 1}
          /\ pc = "exit" => exit_code = 1
    /\ pc = "exit" => exit_code \in {0, 1}
    /\ exit_code = 0 =>
          /\ exc = NoExc
          /\ pc = "exit"
          /\ printed = audio_files
          /\ Len(printed) = 6
    /\ exit_code = 1 => exc # NoExc /\ pc = "exit"

\* A failure of the text phase and a failure of the audio phase both end in
\* exit status 1.
C14_Witness ==
    /\ pc = "exit"
    /\ exit_code = 1
    /\ exc = Exc("ProviderError", "tts_request", "proposition_closing")
    /\ Len(llm_calls) = 6
    /\ Len(audio_files) = 4

\* C15: an entry of debate_content, once written, is never removed or
\* replaced by another text, whatever sequence of generate_debate and
\* generate_audio calls is made on the orchestrator.
C15_WriteOnce ==
    [][\A s \in DOMAIN debate_content :
          (s \in DOMAIN debate_content' /\ debate_content'[s] = debate_content[s])]_vars

\* C15, the audio half alone: generate_audio leaves debate_content as it is.
C15_AudioReadOnly ==
    [][(pc \in AudioPhasePcs) => (debate_content' = debate_content)]_vars

\* C16: within a run no artifact file is written twice: whatever the
\* configured filename pattern, the paths of the audio files and of the
\* transcripts written by generate_audio are pairwise distinct.
C16_DistinctPaths ==
    \A i, j \in 1..Len(writes) : i # j => writes[i].path # writes[j].path

HasField(pattern, field) == \E i \in 1..Len(pattern.stem) : pattern.stem[i] = field

\* C16 for the patterns that number their files and do not end in .txt: these
\* runs write every path once.
C16_DistinctWhenNumbered ==
    (HasField(config.filename_pattern, FieldOrder) /\ config.filename_pattern.ext # ".txt")
        => C16_DistinctPaths

AudioEntrySites ==
    {"debate_content[stage]", "text_to_speech", "voices[voice]", "tts_request",
     "open(transcript_path)"}

\* The path and the content of the audio file of entry j.
AudioPathOf(j) ==
    FormatFilename(config.filename_pattern, speech_order[j].order,
                   speech_order[j].side, speech_order[j].stage_name)

AudioOf(j) ==
    AudioContent(TextOf(debate_content, speech_order[j].stage),
                 VoiceIdOf(config.voices, speech_order[j].side))

\* The failure of entry k leaves generate_audio: no request and no write for
\* a later entry, and one audio write for each earlier entry.
C17_AbortStops ==
    exc.site \in AudioEntrySites =>
        /\ pc \in {"raised", "exit"}
        /\ speech_order[ga_idx].stage = exc.stage
        /\ \A i \in 1..Len(synth_calls) : synth_calls[i].order <= ga_idx
        /\ \A i \in 1..Len(writes) : writes[i].order <= ga_idx
        /\ \A j \in 1..(ga_idx - 1) :
              /\ \E i \in AudioWrites : writes[i].order = j /\ writes[i].path = AudioPathOf(j)
              /\ AudioPathOf(j) \in DOMAIN disk

\* C17: when the synthesis or the transcript write of entry k fails,
\* generate_audio raises to its caller, no synthesis request is made and no
\* file is written for an entry after k, and the audio files of the entries
\* 1..k-1 are on disk as they were produced.
C17_AudioAbort ==
    /\ C17_AbortStops
    /\ exc.site \in AudioEntrySites =>
          \A j \in 1..(ga_idx - 1) : disk[AudioPathOf(j)] = AudioOf(j)

\* C17 for the patterns that number their files and do not end in .txt.
C17_AudioAbortWhenNumbered ==
    (HasField(config.filename_pattern, FieldOrder) /\ config.filename_pattern.ext # ".txt")
        => C17_AudioAbort

\* The dependency relation of the stages: a rebuttal needs the opening of the
\* other side, a closing needs both openings and both rebuttals.
StageDependency(stage) ==
    CASE stage = "proposition_rebuttal" -> {"opposition_opening"}
      [] stage = "opposition_rebuttal" -> {"proposition_opening"}
      [] stage \in {"proposition_closing", "opposition_closing"} ->
            {"proposition_opening", "opposition_opening",
             "proposition_rebuttal", "opposition_rebuttal"}
      [] OTHER -> {}

\* C18: in every state of the text phase, also after a stage has failed, the
\* stages present in debate_content are closed under the dependency relation,
\* and the provider call of a stage is issued only when every stage it depends
\* on is present (and its text is in the context passed).
C18_DependencyClosure ==
    /\ \A s \in DOMAIN debate_content : StageDependency(s) \subseteq DOMAIN debate_content
    /\ \A i \in 1..Len(llm_calls) :
          /\ StageDependency(llm_calls[i].stage) \subseteq DOMAIN llm_calls[i].context
          /\ StageDependency(llm_calls[i].stage) \subseteq
                {llm_calls[j].stage : j \in 1..(i - 1)}
    /\ (pc = "generate_debate" /\ gd_step <= NumStages) =>
          StageDependency(GenerateDebateCalls[gd_step].stage) \subseteq DOMAIN debate_content

\* The provider fails for the opposition's rebuttal: three stages are present.
C18_Witness ==
    /\ exc.site = "llm.invoke"
    /\ exc.stage = "opposition_rebuttal"
    /\ DOMAIN debate_content =
          {"proposition_opening", "opposition_opening", "proposition_rebuttal"}
    /\ Len(llm_calls) = 4

\* C19: in every state of the audio phase a transcript of an entry has been
\* written only if the audio file of that entry was written before it and its
\* path is in the result list; and the result list is the in-order prefix of
\* the six audio paths: the paths of the audio files written so far.
C19_AudioBeforeTranscript ==
    /\ \A i \in TranscriptWrites :
          /\ \E j \in AudioWrites :
                /\ j < i
                /\ writes[j].order = writes[i].order
                /\ writes[i].path = TranscriptPath(writes[j].path)
          /\ writes[i].order <= Len(audio_files)
          /\ audio_files[writes[i].order] = AudioPathOf(writes[i].order)
          /\ writes[i].path \in DOMAIN disk
    /\ Len(audio_files) = Cardinality(AudioWrites)
    /\ Len(audio_files) <= NumEntries
    /\ \A n \in 1..Len(audio_files) :
          /\ audio_files[n] = AudioPathOf(n)
          /\ \E i \in AudioWrites : writes[i].order = n /\ writes[i].path = audio_files[n]
    /\ \A i \in AudioWrites : writes[i].order <= Len(audio_files)

\* The audio of the third entry is written and listed, its transcript is not
\* written yet.
C19_Witness ==
    /\ pc = "generate_audio_transcript"
    /\ config.include_transcript
    /\ Len(audio_files) = 3
    /\ Cardinality(TranscriptWrites) = 2

====
